---------------------------- MODULE Spec2Model ----------------------------
(***************************************************************************)
(* Model of the road-quality 3D viewer (src/view.py and src/view2.py).     *)
(*                                                                         *)
(* The repository holds two variants of the same application.  Both are    *)
(* modelled; the variable `variant` says which program is running.         *)
(*   "view"  : src/view.py   (RoadDataModel, CSVLiveWatcher, ControlPanel  *)
(*             with auto-rotate, RoadQualityApp.import_csv)                *)
(*   "view2" : src/view2.py  (RoadDataModel with reload_if_changed,        *)
(*             ControlPanel.import_csv, RoadQualityApp.update_from_csv)    *)
(*                                                                         *)
(* A CSV file is a sequence of lines, a line a sequence of fields.  A      *)
(* field is an integer sample or NaN (a field numpy cannot parse).         *)
(***************************************************************************)
EXTENDS Integers, Sequences, FiniteSets

\* ------------------------------------------------------------------ bounds
MaxRows == 10
MaxCols == 11
MaxMtime == 3
MaxTurns == 2
MaxPending == 2

\* ------------------------------------------------------- program constants
GridSize == 8
DefaultElev == 30
DefaultAzim == -60
ArrowStep == 5
AutoStep == 1
NaN == -1

Colormaps == {"viridis", "plasma", "inferno", "cividis", "coolwarm"}
Colormaps2 == {"viridis", "plasma", "inferno", "coolwarm"}

Min(a, b) == IF a < b THEN a ELSE b

\* ------------------------------------------------------------ numpy pieces
\* np.zeros((r, c)) as a sequence of r rows of c zeros.
Zeros(r, c) == [i \in 1..r |-> [j \in 1..c |-> 0]]

\* np.isnan(row).all(): true of the empty row too.
IsAllNan(row) == \A j \in 1..Len(row) : row[j] = NaN

\* s[-n:]
LastN(s, n) == IF Len(s) > n THEN SubSeq(s, Len(s) - n + 1, Len(s)) ELSE s

\* s[a:b] with 0-based Python bounds, clipped as Python clips them.
Slice(s, a, b) == SubSeq(s, a + 1, Min(b, Len(s)))

\* The lines after the first `skip` ones.
DropLines(lines, skip) == SubSeq(lines, skip + 1, Len(lines))

NonBlank(line) == Len(line) > 0

\* An ndarray: ndim, shape (nrows, ncols) and data.  A 2-D array holds a
\* sequence of rows; a 1-D array holds its values in data[1] and has
\* nrows = 1, ncols = size; a 0-d array holds its value in data[1][1].
\* err names the exception raised instead ("" when none).
Arr(nd, r, c, d) == [err |-> "", ndim |-> nd, nrows |-> r, ncols |-> c, data |-> d]
Raised(e) == [err |-> e, ndim |-> 0, nrows |-> 0, ncols |-> 0, data |-> <<>>]

\* The column of a one-column table as a flat sequence.
Column(rows) == [i \in 1..Len(rows) |-> rows[i][1]]

\* np.genfromtxt(path, delimiter=',', skip_header=skip): OSError when the
\* file cannot be opened, blank lines skipped, ValueError when a line has
\* another number of fields than the first, the result squeezed.
genfromtxt(f, skip) ==
    IF f.state # "ok" THEN Raised("OSError")
    ELSE LET kept == SelectSeq(DropLines(f.lines, skip), NonBlank)
         IN  IF kept = <<>> THEN Arr(1, 1, 0, <<<<>>>>)
             ELSE LET n == Len(kept[1])
                      r == Len(kept)
                  IN  IF \E i \in 1..r : Len(kept[i]) # n THEN Raised("ValueError")
                      ELSE IF r = 1 /\ n = 1 THEN Arr(0, 1, 1, kept)
                      ELSE IF r = 1 THEN Arr(1, 1, n, kept)
                      ELSE IF n = 1 THEN Arr(1, 1, r, <<Column(kept)>>)
                      ELSE Arr(2, r, n, kept)

\* ------------------------------------------------ view.py: _load_csv
\* Rows that are not all NaN (line 28).
DropNanRows(rows) == SelectSeq(rows, LAMBDA row : ~IsAllNan(row))

\* Lines 29-31: zero rows stacked above when fewer than 8 rows remain.
PadRows(rows, ncols) ==
    IF Len(rows) < GridSize THEN Zeros(GridSize - Len(rows), ncols) \o rows
    ELSE rows

\* Line 32: data[-8:, 1:9].
SliceGrid(rows) == [i \in 1..Len(LastN(rows, GridSize)) |->
                       Slice(LastN(rows, GridSize)[i], 1, GridSize + 1)]

\* Lines 33-35: zero columns appended when fewer than 8 columns remain.
PadColsBug(rows) == rows
PadCols(rows) ==
    [i \in 1..Len(rows) |->
        IF Len(rows[i]) < GridSize
        THEN rows[i] \o [j \in 1..(GridSize - Len(rows[i])) |-> 0]
        ELSE rows[i]]

\* RoadDataModel._load_csv of view.py.  Every exception is caught and
\* answered with np.zeros((8, 8)); a 0-d array makes all(axis=1) raise.
LoadCsvView(f) ==
    LET a == genfromtxt(f, 0)
    IN  IF a.err # "" \/ a.ndim = 0
        THEN [raised |-> "", Z |-> Zeros(GridSize, GridSize)]
        ELSE [raised |-> "",
              Z |-> PadCols(SliceGrid(PadRows(DropNanRows(a.data), a.ncols)))]

\* ------------------------------------------------ view2.py: _load_csv
\* raw[:, -8:] when there are more than 8 columns (lines 30-31).
LastCols(rows) == [i \in 1..Len(rows) |-> LastN(rows[i], GridSize)]

\* raw.reshape((8, 8)) of a flat 64-vector (lines 34-35).
Reshape(flat) == [i \in 1..GridSize |-> SubSeq(flat, (i - 1) * GridSize + 1, i * GridSize)]

\* RoadDataModel._load_csv of view2.py: genfromtxt's exceptions propagate,
\* and any shape but (8, 8) raises ValueError.
LoadCsvView2(f) ==
    LET a == genfromtxt(f, 1)
    IN  IF a.err # "" THEN [raised |-> a.err, Z |-> <<>>]
        ELSE IF a.ndim = 2
        THEN LET c1 == IF a.ncols > GridSize THEN LastCols(a.data) ELSE a.data
                 nc == Min(a.ncols, GridSize)
                 r1 == IF a.nrows >= GridSize THEN LastN(c1, GridSize) ELSE c1
             IN  IF Len(r1) = GridSize /\ nc = GridSize
                 THEN [raised |-> "", Z |-> r1]
                 ELSE [raised |-> "ValueError", Z |-> <<>>]
        ELSE IF a.ndim = 1 /\ a.ncols = GridSize * GridSize
        THEN [raised |-> "", Z |-> Reshape(a.data[1])]
        ELSE [raised |-> "ValueError", Z |-> <<>>]

\* RoadDataModel(csv_file).Z as each variant computes it.
LoadCsv(v, f) == IF v = "view" THEN LoadCsvView(f) ELSE LoadCsvView2(f)

\* ------------------------------------------------------------- CSV files
\* The sample in line i, field j of a generated table.
Val(i, j) == 100 * i + j

\* A table of r lines by c fields whose lines in nanRows are not numeric
\* (a header, a comment); when ragged, the last line has one field more.
Tbl(r, c, nanRows, ragged) ==
    [i \in 1..r |->
        [j \in 1..(IF ragged /\ i = r THEN c + 1 ELSE c) |->
            IF i \in nanRows THEN NaN ELSE Val(i, j)]]

NanPatterns(r) == {{}, {1} \cap (1..r), {r} \cap (1..r), {1, r} \cap (1..r)}

\* The tables the normalisation is checked on.
AllTables ==
    {<<>>}
    \cup UNION {{Tbl(r, c, n, FALSE) : n \in NanPatterns(r)} :
                    r \in 1..MaxRows, c \in 1..MaxCols}
    \cup {Tbl(r, c, {}, TRUE) : r \in 2..3, c \in 1..2}
    \cup {Tbl(2, GridSize * GridSize, {1}, FALSE),
          Tbl(GridSize * GridSize + 1, 1, {}, FALSE)}

\* The contents the external writer alternates between while the
\* application runs: a short table, two full logs with a header line, a
\* file without any number, a single line wider than the grid and a
\* single column.
LiveTables ==
    {Tbl(3, 4, {}, FALSE), Tbl(9, 9, {1}, FALSE), Tbl(10, 9, {1}, FALSE),
     Tbl(2, 3, {1, 2}, FALSE), Tbl(1, MaxCols, {}, FALSE), Tbl(3, 1, {}, FALSE)}

File(st, m, ls) == [state |-> st, mtime |-> m, lines |-> ls]

\* os.path.getmtime(path) raises OSError when the file is gone, and
\* answers the file's mtime otherwise.
StatFails(f) == f.state = "missing"
getmtime(f) == f.mtime

\* ------------------------------------------------------------------ state
VARIABLES
    variant,    \* "view" (src/view.py) or "view2" (src/view2.py)
    file,       \* the CSV file on disk: state, mtime, lines
    canvasZ,    \* Surface3DCanvas.Z
    elev,       \* Surface3DCanvas.elev
    azim,       \* Surface3DCanvas.azim
    cmap,       \* Surface3DCanvas.cmap
    rotating,   \* ControlPanel.rotating
    pending,    \* QTimer.singleShot(120, rotate_step) calls not yet fired
    watch,      \* view: CSVLiveWatcher (timer active, last_mtime);
                \* view2: app.model (exists, last_mtime)
    modelZ,     \* view2: app.model.Z
    pc,         \* "idle", or the handler that is between two file accesses
    last        \* the last handler that ran, its inputs and its outcome

vars == <<variant, file, canvasZ, elev, azim, cmap, rotating, pending,
          watch, modelZ, pc, last>>

viewVars == <<elev, azim, cmap, rotating, pending>>
fileVars == <<file, canvasZ, watch, modelZ, pc>>

Watch(on, m) == [on |-> on, last_mtime |-> m]

\* Both programs start with np.zeros((8, 8)) on the canvas, the default
\* view, no file imported and no watcher.
InitApp ==
    /\ canvasZ = Zeros(GridSize, GridSize)
    /\ elev = DefaultElev
    /\ azim = DefaultAzim
    /\ cmap = "viridis"
    /\ rotating = FALSE
    /\ pending = 0
    /\ watch = Watch(FALSE, 0)
    /\ modelZ = <<>>
    /\ pc = "idle"
    /\ last = [op |-> "init"]

Init ==
    /\ variant \in {"view", "view2"}
    /\ file = File("ok", 1, Tbl(9, 9, {1}, FALSE))
    /\ InitApp

InitNorm ==
    /\ variant \in {"view", "view2"}
    /\ \E st \in {"ok", "unreadable"}, t \in AllTables :
            file = File(st, 1, IF st = "ok" THEN t ELSE <<>>)
    /\ InitApp

\* ------------------------------------------------- the external writer
\* Another process rewrites the CSV file: new contents, a later mtime.
WriteFile ==
    /\ file.mtime < MaxMtime
    /\ \E t \in LiveTables : file' = File("ok", file.mtime + 1, t)
    /\ UNCHANGED <<variant, canvasZ, watch, modelZ, pc, last, viewVars>>

\* The file is deleted or its volume unmounted: stat and open both fail.
DeleteFile ==
    /\ file.state = "ok"
    /\ file' = [file EXCEPT !.state = "missing"]
    /\ UNCHANGED <<variant, canvasZ, watch, modelZ, pc, last, viewVars>>

\* The file loses its read permission: stat succeeds, open fails.
ProtectFile ==
    /\ file.state = "ok"
    /\ file' = [file EXCEPT !.state = "unreadable"]
    /\ UNCHANGED <<variant, canvasZ, watch, modelZ, pc, last, viewVars>>

\* ------------------------------------------- view.py: import and watcher
\* RoadQualityApp.import_csv, lines 257-260: the file is read, the grid
\* drawn, and the previous watcher's timer stopped.
ImportCsvLoad ==
    /\ variant = "view"
    /\ pc = "idle"
    /\ canvasZ' = LoadCsvView(file).Z
    /\ watch' = [watch EXCEPT !.on = FALSE]
    /\ pc' = "import"
    /\ last' = [op |-> "import_load"]
    /\ UNCHANGED <<variant, file, modelZ, viewVars>>

\* CSVLiveWatcher.__init__ (line 109): the initial last_mtime is the
\* file's mtime at construction; OSError when the file is gone.
NewWatcher(w, f) ==
    IF StatFails(f) THEN w ELSE Watch(TRUE, getmtime(f))

\* RoadQualityApp.import_csv, lines 261-264: the watcher is constructed.
\* When getmtime raises, the exception leaves import_csv and self.watcher
\* stays the stopped one.
ImportCsvWatch ==
    /\ variant = "view"
    /\ pc = "import"
    /\ watch' = NewWatcher(watch, file)
    /\ pc' = "idle"
    /\ last' = [op |-> "import",
                exc |-> IF StatFails(file) THEN "OSError" ELSE ""]
    /\ UNCHANGED <<variant, file, canvasZ, modelZ, viewVars>>

\* The first half of a poll (view.py lines 115-118, view2.py lines 42-45):
\* stat the file and compare with the cached mtime.  The answer is the
\* watcher afterwards and what the poll does next: "error" (getmtime
\* raised, caught by the handler), "nothing" or "load".
PollDecide(w, f) ==
    IF StatFails(f) THEN [w |-> w, next |-> "error"]
    ELSE IF getmtime(f) # w.last_mtime
    THEN [w |-> [w EXCEPT !.last_mtime = getmtime(f)], next |-> "load"]
    ELSE [w |-> w, next |-> "nothing"]

\* What a poll leaves in `last` after its stat.
PollRecord(d) ==
    [op |-> IF d.next = "load" THEN "poll_stat" ELSE "poll",
     seen |-> getmtime(file), cached |-> watch.last_mtime,
     res |-> d.next, exc |-> "", prevZ |-> canvasZ,
     retry |-> (last.op = "poll" /\ last.res = "error")]

\* CSVLiveWatcher.check up to the stat (timer.timeout, every 500 ms).
CheckStat ==
    /\ variant = "view"
    /\ pc = "idle"
    /\ watch.on
    /\ LET d == PollDecide(watch, file)
       IN  /\ watch' = d.w
           /\ pc' = IF d.next = "load" THEN "poll" ELSE "idle"
           /\ last' = PollRecord(d)
    /\ UNCHANGED <<variant, file, canvasZ, modelZ, viewVars>>

\* CSVLiveWatcher.check, lines 119-123: the file is read and drawn.
CheckLoad ==
    /\ variant = "view"
    /\ pc = "poll"
    /\ canvasZ' = LoadCsvView(file).Z
    /\ pc' = "idle"
    /\ last' = [last EXCEPT !.op = "poll", !.res = "grid"]
    /\ UNCHANGED <<variant, file, watch, modelZ, viewVars>>

\* ------------------------------------------ view2.py: import and reload
\* ControlPanel.import_csv: RoadDataModel(fname) starts with
\* last_mtime = 0 and loads the file; when the load raises, the exception
\* leaves the handler before app.model is assigned.
ImportCsv2 ==
    /\ variant = "view2"
    /\ pc = "idle"
    /\ LET r == LoadCsvView2(file)
       IN  /\ watch' = IF r.raised = "" THEN Watch(TRUE, 0) ELSE watch
           /\ modelZ' = IF r.raised = "" THEN r.Z ELSE modelZ
           /\ canvasZ' = IF r.raised = "" THEN r.Z ELSE canvasZ
           /\ last' = [op |-> "import", exc |-> r.raised]
    /\ UNCHANGED <<variant, file, pc, viewVars>>

\* RoadQualityApp.update_from_csv / RoadDataModel.reload_if_changed up to
\* the stat (lines 42-45).
UpdateFromCsvStat ==
    /\ variant = "view2"
    /\ pc = "idle"
    /\ watch.on
    /\ LET d == PollDecide(watch, file)
       IN  /\ watch' = d.w
           /\ pc' = IF d.next = "load" THEN "poll" ELSE "idle"
           /\ last' = PollRecord(d)
    /\ UNCHANGED <<variant, file, canvasZ, modelZ, viewVars>>

\* reload_if_changed, lines 46-50, and update_from_csv, line 216: the load;
\* an exception is swallowed, the poll answers False and nothing is drawn.
UpdateFromCsvLoad ==
    /\ variant = "view2"
    /\ pc = "poll"
    /\ LET r == LoadCsvView2(file)
       IN  /\ modelZ' = IF r.raised = "" THEN r.Z ELSE modelZ
           /\ canvasZ' = IF r.raised = "" THEN r.Z ELSE canvasZ
           /\ last' = [last EXCEPT !.op = "poll",
                          !.res = IF r.raised = "" THEN "grid" ELSE "load_error"]
    /\ pc' = "idle"
    /\ UNCHANGED <<variant, file, watch, viewVars>>

\* ------------------------------------------------------------ view state
\* Surface3DCanvas.rotate: the deltas are added, nothing else.
RotateViewBug(e, a, de, da) == [elev |-> e + da, azim |-> a + de]
RotateView(e, a, de, da) == [elev |-> e + de, azim |-> a + da]

\* Surface3DCanvas.reset_view.
ResetTo == [elev |-> DefaultElev, azim |-> DefaultAzim]

\* The part of the unbounded view space the model explores.
InRange(v) ==
    /\ v.elev - DefaultElev \in -(ArrowStep * MaxTurns)..(ArrowStep * MaxTurns)
    /\ v.azim - DefaultAzim \in -(ArrowStep * MaxTurns)..(ArrowStep * MaxTurns)

\* The four arrow buttons (view.py lines 153-158) and a direct call with
\* both deltas.
RotateCalls ==
    {<<ArrowStep, 0>>, <<0, -ArrowStep>>, <<0, ArrowStep>>, <<-ArrowStep, 0>>,
     <<ArrowStep, -2 * ArrowStep>>}

Rotate ==
    /\ pc = "idle"
    /\ \E d \in RotateCalls :
        LET v == RotateView(elev, azim, d[1], d[2])
        IN  /\ InRange(v)
            /\ elev' = v.elev
            /\ azim' = v.azim
            /\ last' = [op |-> "rotate", de |-> d[1], da |-> d[2],
                        pe |-> elev, pa |-> azim]
    /\ UNCHANGED <<variant, cmap, rotating, pending, fileVars>>

ResetView ==
    /\ pc = "idle"
    /\ elev' = ResetTo.elev
    /\ azim' = ResetTo.azim
    /\ last' = [op |-> "reset", pe |-> elev, pa |-> azim]
    /\ UNCHANGED <<variant, cmap, rotating, pending, fileVars>>

\* Surface3DCanvas.update_colormap: the name is stored as given.
ColormapAfter(old, name) == name

\* The names update_colormap is called with: the combo box's items
\* (view.py line 199, view2.py line 175), and one that is not in the list.
ColormapCalls(v) == (IF v = "view" THEN Colormaps ELSE Colormaps2) \cup {"jet"}

UpdateColormap ==
    /\ pc = "idle"
    /\ \E name \in ColormapCalls(variant) :
        /\ cmap' = ColormapAfter(cmap, name)
        /\ last' = [op |-> "colormap", name |-> name, prev |-> cmap]
    /\ UNCHANGED <<variant, elev, azim, rotating, pending, fileVars>>

\* ControlPanel.rotate_step: nothing when the flag is off; else one
\* degree of azimuth and a new single-shot timer.  Answers the azimuth and
\* the number of pending single-shots afterwards.
RotateStepBug(rot, a, p) ==
    [azim |-> RotateView(DefaultElev, a, 0, AutoStep).azim, pending |-> p + 1]
RotateStep(rot, a, p) ==
    IF ~rot THEN [azim |-> a, pending |-> p]
    ELSE [azim |-> RotateView(DefaultElev, a, 0, AutoStep).azim, pending |-> p + 1]

\* ControlPanel.toggle_rotation: the flag is flipped, and rotate_step runs
\* at once when it is now on.
ToggleRotation ==
    /\ variant = "view"
    /\ pc = "idle"
    /\ LET s == IF ~rotating THEN RotateStep(TRUE, azim, pending)
                ELSE [azim |-> azim, pending |-> pending]
       IN  /\ s.pending <= MaxPending
           /\ InRange([elev |-> elev, azim |-> s.azim])
           /\ rotating' = ~rotating
           /\ azim' = s.azim
           /\ pending' = s.pending
           /\ last' = [op |-> "toggle", pa |-> azim]
    /\ UNCHANGED <<variant, elev, cmap, fileVars>>

\* One pending QTimer.singleShot fires and calls rotate_step.
TimerFire ==
    /\ variant = "view"
    /\ pc = "idle"
    /\ pending > 0
    /\ LET s == RotateStep(rotating, azim, pending - 1)
       IN  /\ InRange([elev |-> elev, azim |-> s.azim])
           /\ azim' = s.azim
           /\ pending' = s.pending
           /\ last' = [op |-> "tick", pa |-> azim, on |-> rotating]
    /\ UNCHANGED <<variant, elev, cmap, rotating, fileVars>>

\* ---------------------------------------------------------- specifications
NextFile ==
    \/ WriteFile
    \/ DeleteFile
    \/ ProtectFile
    \/ ImportCsvLoad
    \/ ImportCsvWatch
    \/ CheckStat
    \/ CheckLoad
    \/ ImportCsv2
    \/ UpdateFromCsvStat
    \/ UpdateFromCsvLoad

NextView ==
    \/ Rotate
    \/ ResetView
    \/ UpdateColormap
    \/ ToggleRotation
    \/ TimerFire

NextNorm ==
    \/ ImportCsvLoad
    \/ ImportCsvWatch
    \/ ImportCsv2

\* The file side alone: imports, polls and the writer.
SpecFile == Init /\ [][NextFile]_vars

\* The view controller alone.
SpecViewState == Init /\ [][NextView]_vars

\* The normalisation applied, by an import, to every table of AllTables.
SpecNorm == InitNorm /\ [][NextNorm]_vars

\* The whole application with its external writer: every handler of the
\* file side and of the view side, in any order.  No view handler writes
\* the grid, the file or the watcher, and no file handler reads the view.
Next ==
    \/ NextFile
    \/ NextView

Spec == Init /\ [][Next]_vars

\* ================================================================ claims
Shape8x8(Z) ==
    /\ Len(Z) = 8
    /\ \A i \in 1..Len(Z) : Len(Z[i]) = 8

AllZero(Z) == Shape8x8(Z) /\ \A i \in 1..8 : \A j \in 1..8 : Z[i][j] = 0

Rectangular(lines) == \A i \in 1..Len(lines) : Len(lines[i]) = Len(lines[1])

\* A handler that loaded the file has just run (no writer under SpecNorm,
\* so `file` is still what it read).
JustImported == last.op \in {"import_load", "import"}

\* The exception that left the last import, "" when none.
ImportExc == IF last.op = "import" THEN last.exc ELSE ""

\* ---------------------------------------------------------------- C1
\* C1: a poll that sees the cached mtime produces no grid; a poll that sees
\* another mtime produces exactly one new grid and caches that mtime,
\* however many rewrites happened since the previous poll.
C1_OneGridPerMtimeChange ==
    (last.op = "poll" /\ last.res # "error") =>
        /\ (last.seen = last.cached) =>
                (last.res = "nothing" /\ canvasZ = last.prevZ)
        /\ (last.seen # last.cached) =>
                (last.res = "grid" /\ watch.last_mtime = last.seen)

\* ---------------------------------------------------------------- C2
\* C2: while auto-rotate is off, a timer firing leaves azimuth and
\* elevation as they were and consumes its tick without scheduling
\* another; and no step that leaves auto-rotate off schedules a tick.
C2_NoAdvanceAfterDisable ==
    /\ [][(~rotating /\ TimerFire) =>
            (azim' = azim /\ elev' = elev /\ pending' = pending - 1)]_vars
    /\ [][(~rotating /\ ~rotating') => pending' <= pending]_vars

\* A tick has fired with auto-rotate off, and no tick is left.
C2_Witness ==
    /\ last.op = "tick"
    /\ ~last.on
    /\ ~rotating
    /\ pending = 0
    /\ azim = last.pa

\* ---------------------------------------------------------------- C3
\* C3: a poll whose stat fails leaves the cached mtime and the grid as they
\* were, raises nothing and leaves polling armed; the poll after it stats
\* again, and when that stat succeeds with an mtime other than the cached
\* one, it caches it and reloads the file: the load is under way, or has
\* put the grid of the file on the canvas.
C3_StatFailureRetried ==
    /\ (last.op = "poll" /\ last.res = "error") =>
            /\ watch.last_mtime = last.cached
            /\ canvasZ = last.prevZ
            /\ last.exc = ""
            /\ watch.on
            /\ pc = "idle"
            /\ ENABLED (CheckStat \/ UpdateFromCsvStat)
    /\ (last.op \in {"poll", "poll_stat"} /\ last.retry
          /\ last.res # "error" /\ last.seen # last.cached) =>
            /\ last.res \in {"load", "grid"}
            /\ watch.last_mtime = last.seen
            /\ (last.op = "poll_stat" => pc = "poll")
            /\ last.exc = ""

\* ---------------------------------------------------------------- C4
\* An unreadable file, an empty file, a file without any number.
Degenerate(f) ==
    \/ f.state # "ok"
    \/ f.lines = <<>>
    \/ \A i \in 1..Len(f.lines) : IsAllNan(f.lines[i])

\* C4: _load_csv never raises to its caller, and an unreadable file, an
\* empty file and a file without any number each give the all-zero 8x8
\* grid.  The fourth case of C4, an all-zero grid for every table that is
\* not 8x8, is a further conjunct: it fails wherever this formula fails.
C4_NormalizeNeverRaises ==
    JustImported =>
        /\ ImportExc = ""
        /\ Degenerate(file) => AllZero(canvasZ)

\* ---------------------------------------------------------------- C5
\* The reference rule of the claim: the last min(r, 8) valid rows at the
\* bottom under zero rows, the first min(c, 8) data columns (column 0
\* left out) before zero columns.
ValidRows(lines) == SelectSeq(lines, LAMBDA row : ~IsAllNan(row))

DataCols(lines) == IF lines = <<>> THEN 0 ELSE Len(lines[1]) - 1

RefGrid(lines) ==
    LET V == ValidRows(lines)
        k == Min(Len(V), 8)
        c == Min(DataCols(lines), 8)
    IN  [i \in 1..8 |-> [j \in 1..8 |->
            IF i <= 8 - k \/ j > c THEN 0 ELSE V[Len(V) - 8 + i][j + 1]]]

\* C5: the grid an import shows for a rectangular table is the reference
\* padding/truncation of that table.
C5_ReferencePadTruncate ==
    (JustImported /\ file.state = "ok" /\ Rectangular(file.lines)) =>
        /\ ImportExc = ""
        /\ canvasZ = RefGrid(file.lines)

\* ---------------------------------------------------------------- C6
\* C6: the grid held for rendering is always exactly 8 rows of 8 cells.
C6_GridAlways8x8 == Shape8x8(canvasZ)

\* A poll has replaced a full grid by the padded grid of the 3-line,
\* 3-data-column table.
C6_Witness ==
    /\ last.op = "poll"
    /\ last.res = "grid"
    /\ ~AllZero(last.prevZ)
    /\ canvasZ[5] = <<0, 0, 0, 0, 0, 0, 0, 0>>
    /\ canvasZ[8] = <<302, 303, 304, 0, 0, 0, 0, 0>>

\* ---------------------------------------------------------------- C7
\* C7: rotate adds its deltas exactly, so rotate(5, -10) from (30, -60)
\* gives (35, -70); reset_view gives (30, -60) whatever the view was.
C7_RotateAddsResetRestores ==
    /\ last.op = "rotate" =>
            (elev = last.pe + last.de /\ azim = last.pa + last.da)
    /\ (last.op = "rotate" /\ last.pe = 30 /\ last.pa = -60
          /\ last.de = 5 /\ last.da = -10) => (elev = 35 /\ azim = -70)
    /\ last.op = "reset" => (elev = 30 /\ azim = -60)

\* reset_view has run on a view moved by rotate(5, -10) and one
\* auto-rotate step.
C7_Witness ==
    /\ last.op = "reset"
    /\ last.pe = 35
    /\ last.pa = -69
    /\ elev = 30
    /\ azim = -60

\* ---------------------------------------------------------------- C8
\* C8: the colormap held is always one of the five names; a name outside
\* them is rejected and the previous colormap kept.
C8_ColormapInClosedSet ==
    /\ cmap \in {"viridis", "plasma", "inferno", "cividis", "coolwarm"}
    /\ (last.op = "colormap"
          /\ last.name \notin {"viridis", "plasma", "inferno", "cividis", "coolwarm"})
            => cmap = last.prev

\* ---------------------------------------------------------------- C9
\* C9: at most one auto-rotate tick is pending at any time.
C9_AtMostOnePendingTick == pending <= 1

\* --------------------------------------------------------------- C10
\* C10: whenever the watcher's cached mtime is the file's current mtime,
\* the grid shown is the normalisation of the file's current contents.
C10_NoStaleGrid ==
    (variant = "view" /\ pc = "idle" /\ watch.on /\ file.state = "ok"
       /\ watch.last_mtime = file.mtime)
        => canvasZ = LoadCsvView(file).Z

=============================================================================
